---- MODULE Spec2Model ----
(***************************************************************************)
(* Credit ledger (services/credit_manager.py, database/models.py) and the  *)
(* credit-metered enhance route (routes/ai_routes.py) of the resume        *)
(* builder backend.                                                        *)
(*                                                                         *)
(* The persisted account document is `db`.  Every request works on its own *)
(* in-memory copy of the document (`user[r]`), obtained with User.get and  *)
(* written back whole by Document.save, so a save by one request replaces  *)
(* whatever another request has persisted in between.                      *)
(*                                                                         *)
(* The users and resumes collections are `accounts` and `store`.  On them  *)
(* run the /api/auth routes (routes/auth_routes.py, services/              *)
(* auth_helper.py), the bearer-token dependency (middleware/auth.py) and   *)
(* the protected resume routes (routes/resume_routes.py), each await of a  *)
(* handler being one step.  The upload, ATS-analysis and PDF-generation    *)
(* code of controllers/resume_controller.py works on `files`.              *)
(***************************************************************************)
EXTENDS Integers, Sequences, FiniteSets

(* ------------------------------ bounds -------------------------------- *)

\* Ledger calls made on one loaded account document in the ledger specification.
MaxCalls == 5

\* Requests served one after the other in SpecEnhance.
MaxServed == 2

\* Starting balances 0..MaxInitRemaining (and the registration default).
MaxInitRemaining == 3

\* Resume documents inserted in one run of the resume specifications.
MaxResumes == 2

\* Requests to the protected resume routes accepted in one run of SpecSite.
MaxSubmitted == 3

\* Requests to the protected resume routes accepted in one run of SpecShelf.
MaxConcurrent == 3
MaxPdfSize == 2

(* ----------------------- database/models.py --------------------------- *)

TRIAL == "trial"
BASIC == "basic"
PREMIUM == "premium"
PRO == "pro"

SubscriptionType == {TRIAL, BASIC, PREMIUM, PRO}

\* User.credits_remaining: int = Field(default=10)
DefaultCredits == 10

\* The credit fields of a User document.
UserDoc(tier, remaining, used) ==
    [subscription_type |-> tier, credits_remaining |-> remaining, credits_used |-> used]

UseCreditNoUsage(u, amount) ==
    IF u.credits_remaining >= amount
    THEN [ok |-> TRUE,
          user |-> [u EXCEPT !.credits_remaining = @ - amount]]
    ELSE [ok |-> FALSE, user |-> u]

\* User.use_credit: the document after the call and the value returned; the
\* document is saved exactly when ok.
use_credit(u, amount) ==
    IF u.credits_remaining >= amount
    THEN [ok |-> TRUE,
          user |-> [u EXCEPT !.credits_remaining = @ - amount,
                             !.credits_used = @ + amount]]
    ELSE [ok |-> FALSE, user |-> u]

AddCreditsSubtracts(u, amount) == [u EXCEPT !.credits_remaining = @ - amount]

\* User.add_credits (the document it saves).
add_credits(u, amount) == [u EXCEPT !.credits_remaining = @ + amount]

(* -------------------- services/credit_manager.py ---------------------- *)

CREDIT_COSTS == [enhance |-> 1, analyze |-> 2, generate |-> 3, optimize |-> 1]

\* The operation kinds the calls are drawn from: the priced ones and one the
\* table does not know.
Operations == {"enhance", "analyze", "generate", "optimize", "translate"}

\* CREDIT_COSTS.get(operation, 1)
CostOf(operation) ==
    IF operation \in DOMAIN CREDIT_COSTS THEN CREDIT_COSTS[operation] ELSE 1

HasCreditsStrict(u, amount) == u.credits_remaining > amount

\* User.has_credits
has_credits(u, amount) == u.credits_remaining >= amount

CheckAndUseNoProBranch(u, operation) ==
    LET cost == CostOf(operation) IN
    IF ~has_credits(u, cost)
    THEN [ok |-> FALSE, saved |-> FALSE, user |-> u, status |-> 402]
    ELSE LET res == use_credit(u, cost) IN
         [ok |-> res.ok, saved |-> res.ok, user |-> res.user,
          status |-> IF res.ok THEN 0 ELSE 402]

\* CreditManager.check_and_use_credits: the document after the call.
\* ok = FALSE stands for the HTTPException raised with `status`; saved tells
\* whether the document was written to the store (await user.save()).
check_and_use_credits(u, operation) ==
    LET cost == CostOf(operation) IN
    IF u.subscription_type = PRO
    THEN [ok |-> TRUE, saved |-> TRUE,
          user |-> [u EXCEPT !.credits_used = @ + cost], status |-> 0]
    ELSE IF ~has_credits(u, cost)
    THEN [ok |-> FALSE, saved |-> FALSE, user |-> u, status |-> 402]
    ELSE LET res == use_credit(u, cost) IN
         [ok |-> res.ok, saved |-> res.ok, user |-> res.user,
          status |-> IF res.ok THEN 0 ELSE 402]

Max0(n) == IF n > 0 THEN n ELSE 0

RefundUsedNoFloor(u, operation) ==
    [u EXCEPT !.credits_used = @ - CostOf(operation)]

RefundUsedKeeps(u, operation) == u

\* refund_credits, after add_credits: user.credits_used = max(0, credits_used - cost),
\* the document its second save writes.
refund_used(u, operation) ==
    [u EXCEPT !.credits_used = Max0(@ - CostOf(operation))]

\* CreditManager.refund_credits run to its end: the document after its last save.
refund_credits(u, operation) ==
    IF u.subscription_type # PRO
    THEN refund_used(add_credits(u, CostOf(operation)), operation)
    ELSE u

(* ------------------------ dto/enhancement_dto.py ---------------------- *)

\* The fields of EnhanceRequest.
EnhanceRequestFields == {"content", "section_name"}

\* Request bodies: content is a string, modelled as a sequence of characters.
Whitespace == {" "}

Contents == {<<>>, <<" ", " ">>, <<"a">>, <<" ", "a", " ">>}

\* The bodies drawn when requests run concurrently: one without content, one with.
ConcurrentContents == {<<>>, <<"a">>}

RECURSIVE LStrip(_)
LStrip(s) == IF s # <<>> /\ Head(s) \in Whitespace THEN LStrip(Tail(s)) ELSE s

RECURSIVE RStrip(_)
RStrip(s) ==
    IF s # <<>> /\ s[Len(s)] \in Whitespace THEN RStrip(SubSeq(s, 1, Len(s) - 1)) ELSE s

\* str.strip()
Strip(s) == RStrip(LStrip(s))

(* ------------------------- routes/ai_routes.py ------------------------ *)

\* The operation kind enhance_section reserves and refunds.
EnhanceOp == "enhance"

\* `not content or content.strip() == ""`
ContentMissing(c) == c = <<>> \/ Strip(c) = <<>>

ExceptClauseNoReraise(exc) == "refund"

\* The except clauses of enhance_section: an HTTPException is re-raised as it
\* is, any other exception goes to the refund-and-500 handler.
ExceptClause(exc) == IF exc = "HTTPException" THEN "reraise" ELSE "refund"

(* ---------------- controllers/enhancement_controller.py ---------------- *)

\* What GroqAgent.enhance_content does with the provider's answer: it returns
\* the text, or logs and re-raises whatever the provider call raised.
GeneratorOutcomes == {"return", "raise"}

\* AIController.enhance_resume_section: the result is returned; any exception
\* of the generator leaves the controller as HTTPException(500).
enhance_resume_section(outcome) ==
    IF outcome = "raise"
    THEN [exc |-> "HTTPException", code |-> 500]
    ELSE [exc |-> "none", code |-> 200]

(* ------------------------------ state --------------------------------- *)

\* Two enhance requests of the same account.
Requests == {1, 2}

VARIABLES
    db,          \* the persisted account document
    initial,     \* the document as it was at the start (history)
    doc,         \* ledger specification: the loaded document the calls are made on
    last,        \* ledger specification: the last call and the documents before it
    tally,       \* ledger specification: counts of the calls made so far
    pc,          \* request specifications: where each enhance request stands
    user,        \* each request's in-memory User document
    content,     \* each request's data.content
    status,      \* each request's HTTP status (0 while it has none)
    path,        \* the steps each request has taken (history)
    before,      \* the persisted document when each request arrived (history)
    served,      \* requests accepted so far
    current,     \* the request that arrived last (0 before the first)
    error        \* each request's exception bound in the handler and the detail sent

VARIABLES
    accounts,    \* the users collection: the stored User document of each id
    store,       \* the resumes collection: the stored Resume document of each id
    minted,      \* how many resume ids the database has handed out
    clock,       \* the time, in seconds
    held,        \* the token pair the client received last
    reply,       \* the answer of the last call to an /api/auth route
    call,        \* each request to a protected resume route
    submitted,   \* how many such requests have been accepted
    files,       \* the files in the server's working directory
    flow         \* each upload, ATS-analysis or PDF-generation call

ledgerVars == <<doc, last, tally>>
requestVars == <<pc, user, content, status, path, before, served, current, error>>
enhanceVars == <<db, initial, ledgerVars, requestVars>>
siteVars == <<accounts, store, minted, clock, held, reply, call, submitted>>
flowVars == <<files, flow>>
restVars == <<siteVars, flowVars>>
vars == <<db, initial, doc, last, tally, pc, user, content, status, path, before, served, error,
          current, accounts, store, minted, clock, held, reply, call, submitted, files,
          flow>>

InitRemaining == (0..MaxInitRemaining) \cup {DefaultCredits}
InitUsed == {0, 1, 50}

\* The accounts a run starts from: every tier, with the counters a stored
\* account can hold (both non-negative).
InitDocs ==
    {UserDoc(t, r, u) : t \in SubscriptionType, r \in InitRemaining, u \in InitUsed}

NoDoc == UserDoc(TRIAL, 0, 0)

NoCall == [fn |-> "none", op |-> "none", ok |-> TRUE, before |-> NoDoc,
           round_trip |-> FALSE, origin |-> NoDoc]

NoTally == [calls |-> 0, reserves |-> 0, granted |-> 0, cost_sum |-> 0, refunds |-> 0]

(* ------- the users and resumes collections, tokens: their shapes ------- *)

\* The ids the database gives to inserted User documents.
UserIds == {"u1", "u2"}

\* The ids the database gives to inserted Resume documents, in order.
ResumeIds == 1..MaxResumes

\* An email address, local part and domain: two addresses share a local part.
Emails == {[local |-> "ann", domain |-> "x"], [local |-> "ann", domain |-> "y"]}

NoEmail == [local |-> "", domain |-> ""]

\* A username: the email's local part, followed by a counter when taken
\* (counter 0 stands for no suffix).
NoName == [base |-> "", counter |-> 0]

\* User(...): the fields the caller passes, the declared defaults for the rest
\* (subscription_type, credits_remaining, credits_used, resume_ids, resume_count).
User(username, email, password_hash, google_id) ==
    [username |-> username, email |-> email, password_hash |-> password_hash,
     google_id |-> google_id, subscription_type |-> TRIAL,
     credits_remaining |-> DefaultCredits, credits_used |-> 0,
     resume_ids |-> <<>>, resume_count |-> 0]

\* The slot of an id under which no User document is stored.
NoAccount == User(NoName, NoEmail, <<>>, "none")

\* The json_data documents of the requests: the one a save carries and the
\* one an update carries.
SavedDocument == "D0"

UpdateDocument == "D1"

\* Resume(user_id=..., json_data=...): the owner is what the routes filter on.
Resume(user_id) ==
    [user_id |-> user_id, json_data |-> IF user_id = "none" THEN "none" ELSE SavedDocument]

NoResume == Resume("none")

\* A signed JWT: the payload of generate_jwt_token and whether the signature
\* verifies under JWT_SECRET_KEY.
NoToken == [user_id |-> "none", email |-> NoEmail, exp |-> 0, iat |-> 0,
            type |-> "none", sig |-> "none"]

\* An answer of an /api/auth route, with what the call presented (email,
\* password, token), the time of the call and the users collection before it.
NoReply == [route |-> "none", status |-> 0, detail |-> "none",
            access_token |-> NoToken, refresh_token |-> NoToken,
            user_id |-> "none", email |-> NoEmail, password |-> <<>>,
            presented |-> NoToken, at |-> 0,
            before |-> [u \in UserIds |-> NoAccount]]

NoRequest == [op |-> "none", pc |-> "idle", token |-> NoToken, caller |-> "none",
              target |-> 0, user |-> NoAccount, made |-> 0, status |-> 0,
              detail |-> "none", solo |-> TRUE, seq |-> 0, at |-> 0,
              accounts |-> [u \in UserIds |-> NoAccount],
              store |-> [i \in ResumeIds |-> NoResume]]

\* A call of the upload, ATS-analysis or PDF-generation code: its inputs, the
\* temporary files it has written (temp), the error waiting for a finally
\* block to finish (pending), whether it has reserved credits and how often
\* it has called the Content Generator.
NoRender == [which |-> "none", raised |-> FALSE, returncode |-> 0, exists |-> FALSE,
             size |-> 0, result |-> FALSE, called |-> FALSE]

NoFlow == [op |-> "none", pc |-> "idle", resume |-> "none", job |-> "none",
           temp |-> {}, pending |-> 0, status |-> 0, reserved |-> FALSE,
           generator_calls |-> 0, render |-> NoRender]

(* ------------------ services/auth_helper.py: tokens -------------------- *)

\* timedelta(hours=1) and timedelta(days=30), in seconds.
ACCESS_TTL == 3600
REFRESH_TTL == 2592000

\* generate_jwt_token(user_id, email) called at time now.
generate_jwt_token(user_id, email, now) ==
    [access_token |-> [user_id |-> user_id, email |-> email, exp |-> now + ACCESS_TTL,
                       iat |-> now, type |-> "access", sig |-> "good"],
     refresh_token |-> [user_id |-> user_id, email |-> email, exp |-> now + REFRESH_TTL,
                        iat |-> now, type |-> "refresh", sig |-> "good"]]

\* jwt.decode(token, JWT_SECRET_KEY, algorithms=["HS256"]) at time now: the
\* signature is verified first, then the exp claim (expired from exp on).
jwt_decode(token, now) ==
    IF token.sig # "good" THEN "InvalidTokenError"
    ELSE IF token.exp <= now THEN "ExpiredSignatureError"
    ELSE "payload"

VerifyJwtTokenAnyType(token, now) ==
    LET decoded == jwt_decode(token, now) IN
      IF decoded = "ExpiredSignatureError"
      THEN [ok |-> FALSE, status |-> 401, detail |-> "Token expired"]
      ELSE IF decoded = "InvalidTokenError"
      THEN [ok |-> FALSE, status |-> 401, detail |-> "Invalid token"]
      ELSE [ok |-> TRUE, status |-> 0, detail |-> "none"]

\* middleware/auth.py verify_jwt_token.  The HTTPException raised for a token
\* that is not an access token is raised inside the try block, where the last
\* clause, except Exception, turns it into 401 "Authentication failed".
verify_jwt_token(token, now) ==
    LET decoded == jwt_decode(token, now) IN
      IF decoded = "ExpiredSignatureError"
      THEN [ok |-> FALSE, status |-> 401, detail |-> "Token expired"]
      ELSE IF decoded = "InvalidTokenError"
      THEN [ok |-> FALSE, status |-> 401, detail |-> "Invalid token"]
      ELSE IF token.type # "access"
      THEN [ok |-> FALSE, status |-> 401, detail |-> "Authentication failed"]
      ELSE [ok |-> TRUE, status |-> 0, detail |-> "none"]

RefreshTokenAnyType(token, now) ==
    LET decoded == jwt_decode(token, now) IN
      IF decoded = "ExpiredSignatureError"
      THEN [status |-> 401, detail |-> "Refresh token expired", access_token |-> NoToken]
      ELSE IF decoded = "InvalidTokenError"
      THEN [status |-> 401, detail |-> "Invalid refresh token", access_token |-> NoToken]
      ELSE [status |-> 200, detail |-> "none",
            access_token |-> generate_jwt_token(token.user_id, token.email, now).access_token]

\* routes/auth_routes.py refresh_token: the answer to a presented token.
refresh_token(token, now) ==
    LET decoded == jwt_decode(token, now) IN
      IF decoded = "ExpiredSignatureError"
      THEN [status |-> 401, detail |-> "Refresh token expired", access_token |-> NoToken]
      ELSE IF decoded = "InvalidTokenError"
      THEN [status |-> 401, detail |-> "Invalid refresh token", access_token |-> NoToken]
      ELSE IF token.type # "refresh"
      THEN [status |-> 401, detail |-> "Invalid token type", access_token |-> NoToken]
      ELSE [status |-> 200, detail |-> "none",
            access_token |-> generate_jwt_token(token.user_id, token.email, now).access_token]

\* The times the clock takes: the start and the seconds around both expiries.
Instants == {0, ACCESS_TTL - 1, ACCESS_TTL, REFRESH_TTL - 1, REFRESH_TTL}

\* A token with the same payload whose signature does not verify.
Forged(token) == [token EXCEPT !.sig = "bad"]

(* ----------------- services/auth_helper.py: accounts ------------------- *)

\* credits_remaining=10 as both creation paths pass it.
SignupCredits == 10

\* `len(request.password) < 8` in register.
MinPasswordLength == 8

\* The passwords a client sends: one too short, two long enough.
Passwords == {[i \in 1..(MinPasswordLength - 1) |-> "p"],
              [i \in 1..MinPasswordLength |-> "p"],
              [i \in 1..MinPasswordLength |-> "q"]}

\* hash_password / verify_password: the stored value is a salt followed by
\* the hash, which matches the password it was made from and no other.
hash_password(password) == <<"salt">> \o password

verify_password(password, stored_password) == Tail(stored_password) = password

Stored(accts) == {u \in UserIds : accts[u] # NoAccount}

\* User.find_one(User.email == email): the ids whose document matches.
FindByEmail(accts, email) == {u \in Stored(accts) : accts[u].email = email}

\* The id insert() gives the new document: the first one not in use.
InsertId(accts) ==
    CHOOSE u \in UserIds \ Stored(accts) :
        \A v \in UserIds \ Stored(accts) : u = "u1" \/ v # "u1"

\* `username = email.split("@")[0]`, then the loop
\* `while await User.find_one(User.username == username)` appending a counter.
RECURSIVE unique_username(_, _, _)
unique_username(accts, base, counter) ==
    LET username == [base |-> base, counter |-> counter] IN
      IF \E u \in Stored(accts) : accts[u].username = username
      THEN unique_username(accts, base, counter + 1)
      ELSE username

NewUserNoCredits(accts, email, password_hash, google_id) ==
    [User(unique_username(accts, email.local, 0), email, password_hash, google_id)
        EXCEPT !.credits_remaining = 0]

\* The document both creation paths insert: Trial tier, 10 credits, the
\* declared defaults for credits_used, resume_ids and resume_count.
NewUser(accts, email, password_hash, google_id) ==
    [User(unique_username(accts, email.local, 0), email, password_hash, google_id)
        EXCEPT !.subscription_type = TRIAL, !.credits_remaining = SignupCredits]

CreateUserNoEmailCheck(accts, email, password) ==
    IF Stored(accts) = UserIds
    THEN [status |-> 500, detail |-> "Error creating user", user_id |-> "none",
          accounts |-> accts]
    ELSE LET id == InsertId(accts) IN
      [status |-> 200, detail |-> "none", user_id |-> id,
       accounts |-> [accts EXCEPT ![id] = NewUser(accts, email, hash_password(password), "none")]]

\* create_user_with_password(email, password, name)
create_user_with_password(accts, email, password) ==
    IF FindByEmail(accts, email) # {}
    THEN [status |-> 400, detail |-> "User with this email already exists",
          user_id |-> "none", accounts |-> accts]
    ELSE LET id == InsertId(accts) IN
      [status |-> 200, detail |-> "none", user_id |-> id,
       accounts |-> [accts EXCEPT ![id] = NewUser(accts, email, hash_password(password), "none")]]

\* create_or_update_user(user_data): an account with the email is saved back
\* as it is (every Google field is a declared attribute, so hasattr is true
\* and none is overwritten); otherwise a new account is inserted.
create_or_update_user(accts, email) ==
    IF FindByEmail(accts, email) # {}
    THEN [status |-> 200, detail |-> "none",
          user_id |-> CHOOSE u \in FindByEmail(accts, email) : TRUE, accounts |-> accts]
    ELSE LET id == InsertId(accts) IN
      [status |-> 200, detail |-> "none", user_id |-> id,
       accounts |-> [accts EXCEPT ![id] = NewUser(accts, email, <<>>, "sub")]]

\* authenticate_user(email, password)
authenticate_user(accts, email, password) ==
    IF FindByEmail(accts, email) = {}
    THEN [status |-> 401, detail |-> "Invalid email or password", user_id |-> "none"]
    ELSE LET id == CHOOSE u \in FindByEmail(accts, email) : TRUE IN
      IF accts[id].password_hash = <<>>
      THEN [status |-> 400, detail |-> "Please use Google OAuth to sign in", user_id |-> "none"]
      ELSE IF ~verify_password(password, accts[id].password_hash)
      THEN [status |-> 401, detail |-> "Invalid email or password", user_id |-> "none"]
      ELSE [status |-> 200, detail |-> "none", user_id |-> id]

\* The enhance routes and the ledger do not touch these.
InitRest ==
    /\ accounts = [u \in UserIds |-> NoAccount]
    /\ store = [i \in ResumeIds |-> NoResume]
    /\ minted = 0
    /\ clock = 0
    /\ held = [access_token |-> NoToken, refresh_token |-> NoToken]
    /\ reply = NoReply
    /\ call = [r \in Requests |-> NoRequest]
    /\ submitted = 0
    /\ files = {}
    /\ flow = NoFlow

NoError == [e |-> "none", detail |-> <<>>]

InitRequests ==
    /\ pc = [r \in Requests |-> "idle"]
    /\ user = [r \in Requests |-> NoDoc]
    /\ content = [r \in Requests |-> <<>>]
    /\ status = [r \in Requests |-> 0]
    /\ path = [r \in Requests |-> <<>>]
    /\ before = [r \in Requests |-> NoDoc]
    /\ served = 0
    /\ current = 0
    /\ error = [r \in Requests |-> NoError]

Init ==
    /\ db \in InitDocs
    /\ initial = db
    /\ doc = db
    /\ last = NoCall
    /\ tally = NoTally
    /\ InitRequests
    /\ InitRest

(* ----------------- the ledger called on a loaded document ------------- *)

\* A caller holding the loaded document calls check_and_use_credits(user, op).
CheckAndUseCredits(op) ==
    /\ tally.calls < MaxCalls
    /\ LET res == check_and_use_credits(doc, op) IN
       /\ doc' = res.user
       /\ db' = IF res.saved THEN res.user ELSE db
       /\ last' = [fn |-> "reserve", op |-> op, ok |-> res.ok, before |-> doc,
                   round_trip |-> FALSE, origin |-> NoDoc]
       /\ tally' = [tally EXCEPT !.calls = @ + 1,
                                 !.reserves = @ + 1,
                                 !.granted = @ + (IF res.ok THEN 1 ELSE 0),
                                 !.cost_sum = @ + CostOf(op)]
    /\ UNCHANGED <<initial, restVars, requestVars>>

\* A caller holding the loaded document calls refund_credits(user, op).
\* round_trip records that the call directly follows a successful reserve of
\* the same kind, origin the document before that reserve.
RefundCredits(op) ==
    /\ tally.calls < MaxCalls
    /\ doc' = refund_credits(doc, op)
    /\ db' = IF doc.subscription_type # PRO THEN doc' ELSE db
    /\ last' = [fn |-> "refund", op |-> op, ok |-> TRUE, before |-> doc,
                round_trip |-> (last.fn = "reserve" /\ last.ok /\ last.op = op),
                origin |-> IF last.fn = "reserve" /\ last.ok /\ last.op = op
                           THEN last.before ELSE NoDoc]
    /\ tally' = [tally EXCEPT !.calls = @ + 1, !.refunds = @ + 1]
    /\ UNCHANGED <<initial, restVars, requestVars>>

Next ==
    \/ \E op \in Operations : CheckAndUseCredits(op)
    \/ \E op \in Operations : RefundCredits(op)

Spec == Init /\ [][Next]_vars

(* ------------- enhance_section, one step per database call ------------ *)

Visited(r, step) == \E i \in 1..Len(path[r]) : path[r][i] = step

Count(r, step) == Cardinality({i \in 1..Len(path[r]) : path[r][i] = step})

Log(r, step) == [path EXCEPT ![r] = Append(@, step)]

\* An authenticated POST /api/ai/enhance with body content c arrives.
Arrive(r, c) ==
    /\ pc' = [pc EXCEPT ![r] = "get"]
    /\ content' = [content EXCEPT ![r] = c]
    /\ status' = [status EXCEPT ![r] = 0]
    /\ path' = [path EXCEPT ![r] = <<>>]
    /\ before' = [before EXCEPT ![r] = db]
    /\ user' = [user EXCEPT ![r] = NoDoc]
    /\ served' = served + 1
    /\ current' = r
    /\ error' = [error EXCEPT ![r] = NoError]
    /\ UNCHANGED <<db, initial, restVars, ledgerVars>>

\* Requests handled one at a time: a request arrives when no other is in progress.
ArriveAlone(r) ==
    /\ \A q \in Requests : pc[q] \in {"idle", "done"}
    /\ served < MaxServed
    /\ \E c \in Contents : Arrive(r, c)

\* Requests handled concurrently: each request arrives once, at any time.
ArriveConcurrently(r) ==
    /\ pc[r] = "idle"
    /\ \E c \in ConcurrentContents : Arrive(r, c)

\* An exception raised inside the try block of enhance_section.  A re-raised
\* HTTPException reaches the caller with its own detail, named here by the
\* raise that made it; any other exception is bound to e (`except Exception as e`).
Raise(r, exc, code, step) ==
    /\ path' = Log(r, step)
    /\ IF ExceptClause(exc) = "reraise"
       THEN /\ pc' = [pc EXCEPT ![r] = "done"]
            /\ status' = [status EXCEPT ![r] = code]
            /\ error' = [error EXCEPT ![r].detail = <<step>>]
       ELSE /\ pc' = [pc EXCEPT ![r] = "reload"]
            /\ status' = status
            /\ error' = [error EXCEPT ![r].e = exc]

\* user = await User.get(current_user["user_id"]).  The account exists (no
\* flow deletes accounts), so the 404 branch is not taken.
GetUser(r) ==
    /\ pc[r] = "get"
    /\ user' = [user EXCEPT ![r] = db]
    /\ pc' = [pc EXCEPT ![r] = "reserve"]
    /\ path' = Log(r, "get")
    /\ UNCHANGED <<db, initial, restVars, ledgerVars, content, status, before, served, current, error>>

\* await CreditManager.check_and_use_credits(user, "enhance")
Reserve(r) ==
    /\ pc[r] = "reserve"
    /\ LET res == check_and_use_credits(user[r], EnhanceOp) IN
       /\ user' = [user EXCEPT ![r] = res.user]
       /\ db' = IF res.saved THEN res.user ELSE db
       /\ IF res.ok
          THEN /\ pc' = [pc EXCEPT ![r] = "validate"]
               /\ path' = Log(r, "reserve_ok")
               /\ UNCHANGED <<status, error>>
          ELSE Raise(r, "HTTPException", res.status, "reserve_denied")
    /\ UNCHANGED <<initial, restVars, ledgerVars, content, before, served, current>>

\* if not content or content.strip() == "": the refund call that follows is
\* RefundAdd; otherwise the handler goes on to read data.instructions.
Validate(r) ==
    /\ pc[r] = "validate"
    /\ IF ContentMissing(content[r])
       THEN /\ pc' = [pc EXCEPT ![r] = "refund"]
            /\ path' = Log(r, "content_missing")
       ELSE /\ pc' = [pc EXCEPT ![r] = "instructions"]
            /\ path' = Log(r, "content_ok")
    /\ UNCHANGED <<db, initial, restVars, ledgerVars, user, content, status, before, served, current,
                   error>>

\* `if not data.instructions`: EnhanceRequest declares no such field, so the
\* attribute access raises AttributeError and the Content Generator call below
\* it is not reached.
ReadInstructions(r) ==
    /\ pc[r] = "instructions"
    /\ "instructions" \notin EnhanceRequestFields
    /\ Raise(r, "AttributeError", 500, "attribute_error")
    /\ UNCHANGED <<db, initial, restVars, ledgerVars, user, content, before, served, current>>

\* except Exception: user = await User.get(current_user["user_id"])
Reload(r) ==
    /\ pc[r] = "reload"
    /\ user' = [user EXCEPT ![r] = db]
    /\ pc' = [pc EXCEPT ![r] = "refund"]
    /\ path' = Log(r, "reload")
    /\ UNCHANGED <<db, initial, restVars, ledgerVars, content, status, before, served, current, error>>

\* CreditManager.refund_credits(user, "enhance") up to its first save:
\* await user.add_credits(cost).  On a Pro account the call returns at once.
RefundAdd(r) ==
    /\ pc[r] = "refund"
    /\ path' = Log(r, "refund")
    /\ IF user[r].subscription_type # PRO
       THEN /\ user' = [user EXCEPT ![r] = add_credits(@, CostOf(EnhanceOp))]
            /\ db' = user'[r]
            /\ pc' = [pc EXCEPT ![r] = "refund_save"]
       ELSE /\ UNCHANGED <<user, db>>
            /\ pc' = [pc EXCEPT ![r] = "refunded"]
    /\ UNCHANGED <<initial, restVars, ledgerVars, content, status, before, served, current, error>>

\* refund_credits, the rest: credits_used = max(0, credits_used - cost); await user.save()
RefundSave(r) ==
    /\ pc[r] = "refund_save"
    /\ user' = [user EXCEPT ![r] = refund_used(@, EnhanceOp)]
    /\ db' = user'[r]
    /\ pc' = [pc EXCEPT ![r] = "refunded"]
    /\ UNCHANGED <<initial, restVars, ledgerVars, content, status, path, before, served, current,
                   error>>

\* The except handler has been entered: its first statement, the reload of
\* the account, has been run or has raised.
InHandler(r) == Visited(r, "reload") \/ Visited(r, "reload_failed")

\* detail=f"Enhancement failed: {str(e)}"
EnhancementFailed(e) == <<"Enhancement failed", e>>

\* The raise that follows the refund: HTTPException(400) inside the try block
\* after the content check, HTTPException(500) in the except handler.
RaiseAfterRefund(r) ==
    /\ pc[r] = "refunded"
    /\ IF InHandler(r)
       THEN /\ pc' = [pc EXCEPT ![r] = "done"]
            /\ status' = [status EXCEPT ![r] = 500]
            /\ path' = Log(r, "raise_500")
            /\ error' = [error EXCEPT ![r].detail = EnhancementFailed(error[r].e)]
       ELSE Raise(r, "HTTPException", 400, "raise_400")
    /\ UNCHANGED <<db, initial, restVars, ledgerVars, user, content, before, served, current>>

Step(r) ==
    \/ GetUser(r)
    \/ Reserve(r)
    \/ Validate(r)
    \/ ReadInstructions(r)
    \/ Reload(r)
    \/ RefundAdd(r)
    \/ RefundSave(r)
    \/ RaiseAfterRefund(r)

NextEnhance == \E r \in Requests : ArriveAlone(r) \/ Step(r)

\* Enhance requests on one account, handled one at a time.
SpecEnhance == Init /\ [][NextEnhance]_vars

NextConc == \E r \in Requests : ArriveConcurrently(r) \/ Step(r)

\* Enhance requests on one account, each an independently scheduled task.
SpecConc == Init /\ [][NextConc]_vars

(* ------------- enhance_section when a database call raises ----------- *)

HandlerExceptRebinds(e, inner) == inner

\* The handler's inner `try: ... except: pass`: the exception raised by the
\* reload or by the refund is dropped, and e stays bound to the exception the
\* handler was entered with.
HandlerExcept(e, inner) == e

\* An exception raised by a database call of a refund: swallowed when the
\* refund is the handler's, raised into the try block when it is the refund
\* of the content check.
RefundRaises(r, exc) ==
    IF InHandler(r)
    THEN /\ pc' = [pc EXCEPT ![r] = "refunded"]
         /\ path' = Log(r, "refund_failed")
         /\ error' = [error EXCEPT ![r].e = HandlerExcept(@, exc)]
         /\ status' = status
    ELSE Raise(r, exc, 500, "refund_failed")

\* except Exception: user = await User.get(...) raises.
ReloadFails(r) ==
    /\ pc[r] = "reload"
    /\ pc' = [pc EXCEPT ![r] = "refunded"]
    /\ path' = Log(r, "reload_failed")
    /\ error' = [error EXCEPT ![r].e = HandlerExcept(@, "GetError")]
    /\ UNCHANGED <<db, initial, restVars, ledgerVars, user, content, status, before, served,
                   current>>

\* refund_credits: the save inside add_credits raises; the added credits stay
\* in memory only.  A Pro account makes no database call here.
RefundAddFails(r) ==
    /\ pc[r] = "refund"
    /\ user[r].subscription_type # PRO
    /\ user' = [user EXCEPT ![r] = [@ EXCEPT !.credits_remaining = @ + CostOf(EnhanceOp)]]
    /\ RefundRaises(r, "SaveError")
    /\ UNCHANGED <<db, initial, restVars, ledgerVars, content, before, served, current>>

\* refund_credits: the final save raises; the lowered usage stays in memory only.
RefundSaveFails(r) ==
    /\ pc[r] = "refund_save"
    /\ user' = [user EXCEPT ![r] = refund_used(@, EnhanceOp)]
    /\ RefundRaises(r, "SaveError")
    /\ UNCHANGED <<db, initial, restVars, ledgerVars, content, before, served, current>>

NextFaults ==
    \E r \in Requests :
        \/ ArriveAlone(r)
        \/ Step(r)
        \/ ReloadFails(r)
        \/ RefundAddFails(r)
        \/ RefundSaveFails(r)

\* Enhance requests handled one at a time, with database calls of the refund
\* that may raise.
SpecFaults == Init /\ [][NextFaults]_vars

(* ---- account writes of the routes that are not priced, next to enhance -- *)

\* The operations that load the User document, change fields other than the
\* credit fields and call save(): password login (last_login, updated_at),
\* Google login of an existing account, save resume (add_resume) and delete
\* resume (remove_resume).
AccountWriters == {"login", "google_login", "save_resume", "delete_resume"}

\* One of them arrives for the account of the enhance requests.
ArriveAccountWrite(r, op) ==
    /\ pc[r] = "idle"
    /\ pc' = [pc EXCEPT ![r] = "account_read"]
    /\ path' = [path EXCEPT ![r] = <<op>>]
    /\ before' = [before EXCEPT ![r] = db]
    /\ served' = served + 1
    /\ current' = r
    /\ UNCHANGED <<db, initial, restVars, ledgerVars, user, content, status, error>>

\* user = await User.find_one(User.email == email) / await User.get(user_id)
AccountRead(r) ==
    /\ pc[r] = "account_read"
    /\ user' = [user EXCEPT ![r] = db]
    /\ pc' = [pc EXCEPT ![r] = "account_save"]
    /\ path' = Log(r, "account_read")
    /\ UNCHANGED <<db, initial, restVars, ledgerVars, content, status, before, served, current,
                   error>>

\* await user.save(): the document is written with every field of the
\* in-memory copy, the credit fields as they were read.
AccountSave(r) ==
    /\ pc[r] = "account_save"
    /\ db' = user[r]
    /\ pc' = [pc EXCEPT ![r] = "done"]
    /\ status' = [status EXCEPT ![r] = 200]
    /\ path' = Log(r, "account_save")
    /\ UNCHANGED <<initial, restVars, ledgerVars, user, content, before, served, current, error>>

NextMixed ==
    \E r \in Requests :
        \/ ArriveConcurrently(r)
        \/ Step(r)
        \/ \E op \in AccountWriters : ArriveAccountWrite(r, op)
        \/ AccountRead(r)
        \/ AccountSave(r)

\* Enhance requests and account writes of other routes on one account, each
\* an independently scheduled task.
SpecMixed == Init /\ [][NextMixed]_vars

(* -------- enhance_section from the Content Generator call on ---------- *)

\* Lines 41-61 with the prompt resolved: the handler's continuation when
\* reading data.instructions does not raise.  The shipped EnhanceRequest does
\* not declare the field (ReadInstructions), so under SpecEnhance and SpecConc
\* the lines below are never run; this specification runs them.
ResolveInstructions(r) ==
    /\ pc[r] = "instructions"
    /\ pc' = [pc EXCEPT ![r] = "generate"]
    /\ path' = Log(r, "instructions")
    /\ UNCHANGED <<db, initial, restVars, ledgerVars, user, content, status, before, served,
                   current, error>>

\* result = await ai_controller.enhance_resume_section(...); return result
Delegate(r) ==
    /\ pc[r] = "generate"
    /\ \E outcome \in GeneratorOutcomes :
         LET res == enhance_resume_section(outcome) IN
           IF res.exc = "none"
           THEN /\ pc' = [pc EXCEPT ![r] = "done"]
                /\ status' = [status EXCEPT ![r] = res.code]
                /\ path' = Log(r, "generated")
                /\ error' = error
           ELSE Raise(r, res.exc, res.code, "generator_failed")
    /\ UNCHANGED <<db, initial, restVars, ledgerVars, user, content, before, served, current>>

\* Reload is left out: no exception other than HTTPException reaches the
\* handler's except clauses once the prompt is resolved.
NextDelegate ==
    \E r \in Requests :
        \/ ArriveAlone(r)
        \/ GetUser(r)
        \/ Reserve(r)
        \/ Validate(r)
        \/ ResolveInstructions(r)
        \/ Delegate(r)
        \/ RefundAdd(r)
        \/ RefundSave(r)
        \/ RaiseAfterRefund(r)

\* Enhance requests, one at a time, whose prompt resolves.
SpecDelegate == Init /\ [][NextDelegate]_vars

(* ------------------------ routes/auth_routes.py ------------------------ *)

\* The enhance variables stay as the site specifications start them.
InitEnhanceRest ==
    /\ db = NoDoc
    /\ initial = db
    /\ doc = db
    /\ last = NoCall
    /\ tally = NoTally
    /\ InitRequests

\* No account, no resume, no token, time 0.
InitSite == InitEnhanceRest /\ InitRest

\* What a successful register, login or google_oauth answers: the tokens of
\* generate_jwt_token for the account, which the client then holds.
Answer(route, res, email, password) ==
    LET tokens == generate_jwt_token(res.user_id, email, clock) IN
      /\ reply' = [NoReply EXCEPT !.route = route, !.status = res.status,
                                  !.detail = res.detail, !.user_id = res.user_id,
                                  !.email = email, !.password = password, !.at = clock,
                                  !.before = accounts,
                                  !.access_token = IF res.status = 200
                                                   THEN tokens.access_token ELSE NoToken,
                                  !.refresh_token = IF res.status = 200
                                                    THEN tokens.refresh_token ELSE NoToken]
      /\ held' = IF res.status = 200 THEN tokens ELSE held

\* POST /api/auth/register
Register(email, password) ==
    /\ \/ Stored(accounts) # UserIds
       \/ FindByEmail(accounts, email) # {}
       \/ Len(password) < MinPasswordLength
    /\ LET res == IF Len(password) < MinPasswordLength
                  THEN [status |-> 400, user_id |-> "none", accounts |-> accounts,
                        detail |-> "Password must be at least 8 characters long"]
                  ELSE create_user_with_password(accounts, email, password) IN
         /\ accounts' = res.accounts
         /\ Answer("register", res, email, password)
    /\ UNCHANGED <<enhanceVars, flowVars, store, minted, clock, call, submitted>>

\* POST /api/auth/google with a token Google verifies for the email.
GoogleOAuth(email) ==
    /\ Stored(accounts) # UserIds \/ FindByEmail(accounts, email) # {}
    /\ LET res == create_or_update_user(accounts, email) IN
         /\ accounts' = res.accounts
         /\ Answer("google", res, email, <<>>)
    /\ UNCHANGED <<enhanceVars, flowVars, store, minted, clock, call, submitted>>

\* POST /api/auth/login
Login(email, password) ==
    /\ Answer("login", authenticate_user(accounts, email, password), email, password)
    /\ UNCHANGED <<enhanceVars, flowVars, accounts, store, minted, clock, call, submitted>>

\* The tokens a client can present: the ones it holds, the same with a
\* signature that does not verify, and none.
Presentable ==
    {held.access_token, held.refresh_token, Forged(held.access_token),
     Forged(held.refresh_token)}

\* POST /api/auth/refresh
RefreshToken(token) ==
    /\ LET res == refresh_token(token, clock) IN
         /\ reply' = [NoReply EXCEPT !.route = "refresh", !.status = res.status,
                                     !.detail = res.detail, !.presented = token,
                                     !.at = clock, !.before = accounts,
                                     !.access_token = res.access_token]
         /\ held' = IF res.status = 200
                    THEN [held EXCEPT !.access_token = res.access_token] ELSE held
    /\ UNCHANGED <<enhanceVars, flowVars, accounts, store, minted, clock, call, submitted>>

\* Time passes.
Tick(t) ==
    /\ t > clock
    /\ clock' = t
    /\ UNCHANGED <<enhanceVars, flowVars, accounts, store, minted, held, reply, call, submitted>>

(* ----------------------- routes/resume_routes.py ---------------------- *)

\* The fields SaveResumeRequest declares.
SaveResumeRequestFields == {"title", "json_data"}

ResumeOps == {"save", "get", "update", "delete"}

FindOneAnyOwner(st, resume_id, user_id) == st[resume_id]

\* Resume.find_one(Resume.id == resume_id, Resume.user_id == user_id)
find_one(st, resume_id, user_id) ==
    IF st[resume_id] # NoResume /\ st[resume_id].user_id = user_id
    THEN st[resume_id] ELSE NoResume

InSeq(x, seq) == \E i \in 1..Len(seq) : seq[i] = x

\* list.remove(x): the sequence without the first occurrence of x.
RECURSIVE Remove(_, _)
Remove(x, seq) ==
    IF seq = <<>> THEN <<>>
    ELSE IF Head(seq) = x THEN Tail(seq)
    ELSE <<Head(seq)>> \o Remove(x, Tail(seq))

\* User.add_resume: the document after the call and whether it was saved.
add_resume(u, resume_id) ==
    IF ~InSeq(resume_id, u.resume_ids)
    THEN [saved |-> TRUE,
          user |-> [u EXCEPT !.resume_ids = Append(@, resume_id),
                             !.resume_count = Len(u.resume_ids) + 1]]
    ELSE [saved |-> FALSE, user |-> u]

\* User.remove_resume
remove_resume(u, resume_id) ==
    IF InSeq(resume_id, u.resume_ids)
    THEN [saved |-> TRUE,
          user |-> [u EXCEPT !.resume_ids = Remove(resume_id, @),
                             !.resume_count = Len(Remove(resume_id, u.resume_ids))]]
    ELSE [saved |-> FALSE, user |-> u]

InProgress(r) == call[r].pc \notin {"idle", "done"}

\* A request to a protected resume route arrives with a bearer token; target
\* is the resume id in the path (unused by save).  The record keeps the two
\* collections as they are at arrival, the request's number (seq), and
\* whether no other request is in progress while this one is (solo).
Submit(r, op, token, target) ==
    /\ ~InProgress(r)
    /\ submitted' = submitted + 1
    /\ call' = [q \in Requests |->
                  IF q = r
                  THEN [NoRequest EXCEPT !.op = op, !.pc = "auth", !.token = token,
                                         !.target = target, !.seq = submitted + 1,
                                         !.solo = \A o \in Requests \ {r} : ~InProgress(o),
                                         !.accounts = accounts, !.store = store]
                  ELSE IF InProgress(q) THEN [call[q] EXCEPT !.solo = FALSE]
                  ELSE call[q]]
    /\ UNCHANGED <<enhanceVars, flowVars, accounts, store, minted, clock, held, reply>>

End(r, code, detail) ==
    call' = [call EXCEPT ![r].pc = "done", ![r].status = code, ![r].detail = detail]

\* Depends(get_current_user): verify_jwt_token on the bearer token, then the
\* payload's user_id is the caller.
Authenticate(r) ==
    /\ call[r].pc = "auth"
    /\ LET v == verify_jwt_token(call[r].token, clock) IN
         IF ~v.ok
         THEN call' = [call EXCEPT ![r].pc = "done", ![r].status = v.status,
                                   ![r].detail = v.detail, ![r].at = clock]
         ELSE call' = [call EXCEPT ![r].caller = call[r].token.user_id,
                                   ![r].at = clock,
                                   ![r].pc = IF call[r].op = "save" THEN "get_user"
                                             ELSE "find"]
    /\ UNCHANGED <<enhanceVars, flowVars, accounts, store, minted, clock, held, reply,
                   submitted>>

\* save_resume: user = await User.get(current_user["user_id"]).  The 404
\* raised for a missing account is caught by the handler's only clause,
\* except Exception, and answered as 500.
SaveGetUser(r) ==
    /\ call[r].pc = "get_user"
    /\ IF accounts[call[r].caller] = NoAccount
       THEN End(r, 500, "Error saving resume")
       ELSE call' = [call EXCEPT ![r].user = accounts[call[r].caller], ![r].pc = "insert"]
    /\ UNCHANGED <<enhanceVars, flowVars, accounts, store, minted, clock, held, reply,
                   submitted>>

\* save_resume: await new_resume.insert()
SaveInsert(r) ==
    /\ call[r].pc = "insert"
    /\ minted < MaxResumes
    /\ minted' = minted + 1
    /\ store' = [store EXCEPT ![minted + 1] = Resume(call[r].caller)]
    /\ call' = [call EXCEPT ![r].made = minted + 1, ![r].pc = "add_resume"]
    /\ UNCHANGED <<enhanceVars, flowVars, accounts, clock, held, reply, submitted>>

\* save_resume: await user.add_resume(new_resume.id); the response follows.
\* Document.save writes the request's whole in-memory document.
SaveAddResume(r) ==
    /\ call[r].pc = "add_resume"
    /\ LET res == add_resume(call[r].user, call[r].made) IN
         /\ accounts' = IF res.saved THEN [accounts EXCEPT ![call[r].caller] = res.user]
                        ELSE accounts
         /\ call' = [call EXCEPT ![r].user = res.user, ![r].pc = "done", ![r].status = 200]
    /\ UNCHANGED <<enhanceVars, flowVars, store, minted, clock, held, reply, submitted>>

\* get, update and delete begin with the same ownership query.
FindOne(r) ==
    /\ call[r].pc = "find"
    /\ IF find_one(store, call[r].target, call[r].caller) = NoResume
       THEN End(r, 404, "Resume not found or access denied")
       ELSE IF call[r].op = "get" THEN End(r, 200, "none")
       ELSE call' = [call EXCEPT ![r].pc = IF call[r].op = "update" THEN "update_fields"
                                           ELSE "remove_resume"]
    /\ UNCHANGED <<enhanceVars, flowVars, accounts, store, minted, clock, held, reply,
                   submitted>>

\* update_my_resume after the query: `request.yaml_content` is read, which
\* SaveResumeRequest does not declare; the AttributeError is answered as 500
\* before resume.save() is reached.
UpdateFields(r) ==
    /\ call[r].pc = "update_fields"
    /\ "yaml_content" \notin SaveResumeRequestFields
    /\ End(r, 500, "Error updating resume")
    /\ UNCHANGED <<enhanceVars, flowVars, accounts, store, minted, clock, held, reply,
                   submitted>>

\* delete_my_resume: user = await User.get(...)
DeleteGetUser(r) ==
    /\ call[r].pc = "remove_resume"
    /\ call' = [call EXCEPT ![r].user = accounts[call[r].caller], ![r].pc = "remove_save"]
    /\ UNCHANGED <<enhanceVars, flowVars, accounts, store, minted, clock, held, reply,
                   submitted>>

\* delete_my_resume: `if user: await user.remove_resume(resume.id)`
DeleteRemoveResume(r) ==
    /\ call[r].pc = "remove_save"
    /\ LET res == IF call[r].user = NoAccount
                  THEN [saved |-> FALSE, user |-> call[r].user]
                  ELSE remove_resume(call[r].user, call[r].target) IN
         /\ accounts' = IF res.saved THEN [accounts EXCEPT ![call[r].caller] = res.user]
                        ELSE accounts
         /\ call' = [call EXCEPT ![r].user = res.user, ![r].pc = "delete"]
    /\ UNCHANGED <<enhanceVars, flowVars, store, minted, clock, held, reply, submitted>>

\* delete_my_resume: await resume.delete(); the success message follows.
DeleteDocument(r) ==
    /\ call[r].pc = "delete"
    /\ store' = [store EXCEPT ![call[r].target] = NoResume]
    /\ End(r, 200, "Resume deleted successfully")
    /\ UNCHANGED <<enhanceVars, flowVars, accounts, minted, clock, held, reply, submitted>>

Handle(r) ==
    \/ Authenticate(r)
    \/ SaveGetUser(r)
    \/ SaveInsert(r)
    \/ SaveAddResume(r)
    \/ FindOne(r)
    \/ UpdateFields(r)
    \/ DeleteGetUser(r)
    \/ DeleteRemoveResume(r)
    \/ DeleteDocument(r)

NextAuth ==
    \/ \E email \in Emails, password \in Passwords : Register(email, password)
    \/ \E email \in Emails : GoogleOAuth(email)
    \/ \E email \in Emails, password \in Passwords : Login(email, password)
    \/ \E token \in Presentable : RefreshToken(token)
    \/ \E t \in Instants : Tick(t)

\* The /api/auth routes, one call at a time, from an empty users collection.
SpecAuth == InitSite /\ [][NextAuth]_vars

\* The users collection after two password registrations.
RegisteredPassword == [i \in 1..MinPasswordLength |-> "p"]

TwoAccounts ==
    LET empty == [u \in UserIds |-> NoAccount]
        first == create_user_with_password(empty, [local |-> "ann", domain |-> "x"],
                                           RegisteredPassword)
    IN create_user_with_password(first.accounts, [local |-> "ann", domain |-> "y"],
                                 RegisteredPassword).accounts

\* The times around the expiry of an access token issued at 0.
AccessInstants == {0, ACCESS_TTL - 1, ACCESS_TTL}

InitShelf ==
    /\ InitEnhanceRest
    /\ accounts = TwoAccounts
    /\ store = [i \in ResumeIds |-> NoResume]
    /\ minted = 0
    /\ clock = 0
    /\ held = [access_token |-> NoToken, refresh_token |-> NoToken]
    /\ reply = NoReply
    /\ call = [r \in Requests |-> NoRequest]
    /\ submitted = 0
    /\ files = {}
    /\ flow = NoFlow

\* One request at a time, with any token the client can present.  With no
\* request in progress it does not matter which task takes the next one: it
\* is the first.
SubmitAlone(r) ==
    /\ \A q \in Requests : ~InProgress(q) /\ r <= q
    /\ submitted < MaxSubmitted
    /\ \E op \in ResumeOps, token \in Presentable, target \in ResumeIds :
         Submit(r, op, token, target)

NextSite ==
    \/ \E email \in Emails : Login(email, RegisteredPassword)
    \/ \E t \in AccessInstants : Tick(t)
    \/ \E r \in Requests : SubmitAlone(r) \/ Handle(r)

\* Two registered accounts whose clients log in and call the protected
\* resume routes, one request at a time.
SpecSite == InitShelf /\ [][NextSite]_vars

\* The access tokens of the two accounts, issued at time 0.
AccessTokens ==
    {generate_jwt_token(u, TwoAccounts[u].email, 0).access_token : u \in UserIds}

\* Requests of logged-in clients, each an independently scheduled task.
SubmitConcurrently(r) ==
    /\ submitted < MaxConcurrent
    /\ \E op \in ResumeOps, token \in AccessTokens, target \in ResumeIds :
         Submit(r, op, token, target)

NextShelf == \E r \in Requests : SubmitConcurrently(r) \/ Handle(r)

\* Requests of the two accounts to the protected resume routes, interleaved.
SpecShelf == InitShelf /\ [][NextShelf]_vars

(* ------------------- controllers/resume_controller.py ----------------- *)

\* The files the three flows write, by the pattern of their names:
\* temp_{uuid}.pdf, temp_ats_{uuid}.pdf, resume_{id}.yaml, resume_{id}.pdf.
FileNames == {"temp", "temp_ats", "yaml", "pdf"}

\* The fields Resume declares (set_json_data aside, the handlers assign
\* attributes directly).
ResumeFields == {"user_id", "title", "username", "email", "json_data", "created_at",
                 "updated_at"}

FlowEnded == flow.pc \in {"idle", "done"}

Finish(code) == flow' = [flow EXCEPT !.pc = "done", !.status = code]

\* POST /api/resumes/upload for an authenticated user reaches
\* upload_and_parse_resume.
BeginUpload ==
    /\ FlowEnded
    /\ flow' = [NoFlow EXCEPT !.op = "upload", !.pc = "write", !.resume = "file"]
    /\ UNCHANGED <<enhanceVars, siteVars, files>>

\* POST /api/resumes/analyze reaches analyze_ats_compatibility: the route
\* declares no authentication dependency and makes no ledger call.
BeginAnalyze(resume, job) ==
    /\ FlowEnded
    /\ flow' = [NoFlow EXCEPT !.op = "analyze", !.resume = resume, !.job = job,
                              !.pc = IF resume = "file" THEN "write"
                                     ELSE IF resume = "text" THEN "job" ELSE "raise_400"]
    /\ UNCHANGED <<enhanceVars, siteVars, files>>

\* generate_pdf_from_resume(resume_id), up to the resume lookup.
BeginPdf(found) ==
    /\ FlowEnded
    /\ flow' = [NoFlow EXCEPT !.op = "generate_pdf", !.resume = "stored",
                              !.pc = IF found THEN "yaml" ELSE "raise_404"]
    /\ UNCHANGED <<enhanceVars, siteVars, files>>

\* The raise of a request that fails before it writes or calls anything.
RaiseEarly ==
    /\ flow.pc \in {"raise_400", "raise_404"}
    /\ Finish(IF flow.pc = "raise_400" THEN 400 ELSE 404)
    /\ UNCHANGED <<enhanceVars, siteVars, files>>

\* `with open(temp_path, "wb") as buffer: buffer.write(await file.read())`,
\* inside the try whose finally removes the file.  open creates the file;
\* reading the upload may raise.
WriteTemp(raised) ==
    /\ flow.pc = "write"
    /\ LET name == IF flow.op = "upload" THEN "temp" ELSE "temp_ats" IN
         /\ files' = files \cup {name}
         /\ flow' = [flow EXCEPT !.temp = @ \cup {name},
                                 !.pending = IF raised THEN 500 ELSE 0,
                                 !.pc = IF raised THEN "finally" ELSE "extract"]
    /\ UNCHANGED <<enhanceVars, siteVars>>

\* extract_raw_text(temp_path), which returns "" on any error, and the 400
\* raised when there is no text.  In analyze the finally block follows at
\* once; in upload the Content Generator call comes first.
ExtractText(text) ==
    /\ flow.pc = "extract"
    /\ flow' = IF text = "empty"
               THEN [flow EXCEPT !.pending = 400, !.pc = "finally"]
               ELSE [flow EXCEPT !.pc = IF flow.op = "upload" THEN "parse" ELSE "finally"]
    /\ UNCHANGED <<enhanceVars, siteVars, files>>

\* upload: json_content = await groq_agent_instance.process_resume(...),
\* then the returns of lines 97-112.
ParseUpload(outcome) ==
    /\ flow.pc = "parse"
    /\ flow' = [flow EXCEPT !.generator_calls = @ + 1,
                            !.pending = IF outcome = "raise" THEN 500 ELSE 0,
                            !.pc = "finally"]
    /\ UNCHANGED <<enhanceVars, siteVars, files>>

\* finally: if os.path.exists(temp_path): os.remove(temp_path).  What was
\* raised or returned inside the try then takes effect.
Finally ==
    /\ flow.pc = "finally"
    /\ files' = files \ flow.temp
    /\ flow' = IF flow.pending # 0
               THEN [flow EXCEPT !.pc = "done", !.status = flow.pending]
               ELSE IF flow.op = "upload"
               THEN [flow EXCEPT !.pc = "done", !.status = 200]
               ELSE [flow EXCEPT !.pc = "job"]
    /\ UNCHANGED <<enhanceVars, siteVars>>

\* analyze: the job description (a URL that cannot be scraped still yields
\* a text); without either field the 400 of line 262.
JobDescription ==
    /\ flow.pc = "job"
    /\ IF flow.job = "none" THEN Finish(400) ELSE flow' = [flow EXCEPT !.pc = "analysis"]
    /\ UNCHANGED <<enhanceVars, siteVars, files>>

\* analyze: analysis_result = await groq_agent_instance.enhance_content(...)
\* and the scoring that follows; any exception is answered as 500.
Analysis(outcome) ==
    /\ flow.pc = "analysis"
    /\ flow' = [flow EXCEPT !.generator_calls = @ + 1, !.pc = "done",
                            !.status = IF outcome = "raise" THEN 500 ELSE 200]
    /\ UNCHANGED <<enhanceVars, siteVars, files>>

\* generate_pdf_from_resume: the YAML conversion, which may raise, and the
\* write of resume_{id}.yaml.
WriteYaml(raised) ==
    /\ flow.pc = "yaml"
    /\ IF raised
       THEN Finish(500) /\ files' = files
       ELSE /\ files' = files \cup {"yaml"}
            /\ flow' = [flow EXCEPT !.temp = @ \cup {"yaml"}, !.pc = "render"]
    /\ UNCHANGED <<enhanceVars, siteVars>>

\* success = await create_pdf_with_rendercv(yaml_path, pdf_path); a false
\* result raises HTTPException(500), which `except Exception` answers as 500.
Render(success) ==
    /\ flow.pc = "render"
    /\ IF success
       THEN /\ files' = files \cup {"pdf"}
            /\ flow' = [flow EXCEPT !.pc = "store"]
       ELSE Finish(500) /\ files' = files
    /\ UNCHANGED <<enhanceVars, siteVars>>

\* `resume.yaml_content = yaml_content`: Resume declares no such field, the
\* assignment raises and is answered as 500.  No line of the function
\* removes a file.
StorePaths ==
    /\ flow.pc = "store"
    /\ "yaml_content" \notin ResumeFields
    /\ Finish(500)
    /\ UNCHANGED <<enhanceVars, siteVars, files>>

NextFlows ==
    \/ BeginUpload
    \/ \E resume \in {"file", "text", "none"}, job \in {"given", "none"} :
         BeginAnalyze(resume, job)
    \/ \E found \in BOOLEAN : BeginPdf(found)
    \/ RaiseEarly
    \/ \E raised \in BOOLEAN : WriteTemp(raised)
    \/ \E text \in {"text", "empty"} : ExtractText(text)
    \/ \E outcome \in GeneratorOutcomes : ParseUpload(outcome)
    \/ Finally
    \/ JobDescription
    \/ \E outcome \in GeneratorOutcomes : Analysis(outcome)
    \/ \E raised \in BOOLEAN : WriteYaml(raised)
    \/ \E success \in BOOLEAN : Render(success)
    \/ StorePaths

\* Upload, ATS-analysis and PDF-generation calls, one at a time.
SpecFlows == InitSite /\ [][NextFlows]_vars

(* ------- account creation, one step per database call (await) -------- *)

SignupOps == {"register", "google"}

\* The User(...) document a creation path builds once its username is chosen.
NewUserNamed(username, email, password_hash, google_id) ==
    [User(username, email, password_hash, google_id)
        EXCEPT !.subscription_type = TRIAL, !.credits_remaining = SignupCredits]

\* A registration with a password of valid length, or a Google login with a
\* verified token, arrives; the document it may insert is kept in call[r].user.
BeginSignup(r, op, email) ==
    /\ ~InProgress(r)
    /\ submitted < MaxConcurrent
    /\ submitted' = submitted + 1
    /\ call' = [call EXCEPT ![r] =
                  [NoRequest EXCEPT !.op = op, !.pc = "find_email", !.seq = submitted + 1,
                     !.user = User([base |-> email.local, counter |-> 0], email,
                                   IF op = "register" THEN hash_password(RegisteredPassword)
                                   ELSE <<>>,
                                   IF op = "register" THEN "none" ELSE "sub")]]
    /\ UNCHANGED <<enhanceVars, flowVars, accounts, store, minted, clock, held, reply>>

\* existing_user = await User.find_one(User.email == email)
SignupFindEmail(r) ==
    /\ call[r].pc = "find_email"
    /\ LET found == FindByEmail(accounts, call[r].user.email) IN
         IF found = {}
         THEN call' = [call EXCEPT ![r].pc = "find_username"]
         ELSE IF call[r].op = "register"
         THEN End(r, 400, "User with this email already exists")
         ELSE LET id == CHOOSE u \in found : TRUE IN
                call' = [call EXCEPT ![r].pc = "save_existing", ![r].caller = id,
                                     ![r].user = accounts[id]]
    /\ UNCHANGED <<enhanceVars, flowVars, accounts, store, minted, clock, held, reply,
                   submitted>>

\* One test of `while await User.find_one(User.username == username)`.
SignupFindUsername(r) ==
    /\ call[r].pc = "find_username"
    /\ IF \E u \in Stored(accounts) : accounts[u].username = call[r].user.username
       THEN call' = [call EXCEPT ![r].user.username.counter = @ + 1]
       ELSE call' = [call EXCEPT ![r].pc = "insert"]
    /\ UNCHANGED <<enhanceVars, flowVars, accounts, store, minted, clock, held, reply,
                   submitted>>

\* await new_user.insert(): the collection has plain indexes on username and
\* email, so the insert is accepted whatever is stored.
SignupInsert(r) ==
    /\ call[r].pc = "insert"
    /\ Stored(accounts) # UserIds
    /\ LET id == InsertId(accounts)
           u == call[r].user
       IN /\ accounts' = [accounts EXCEPT ![id] =
                            NewUserNamed(u.username, u.email, u.password_hash, u.google_id)]
          /\ call' = [call EXCEPT ![r].pc = "done", ![r].status = 200, ![r].caller = id]
    /\ UNCHANGED <<enhanceVars, flowVars, store, minted, clock, held, reply, submitted>>

\* create_or_update_user on an existing account: await existing_user.save()
SignupSaveExisting(r) ==
    /\ call[r].pc = "save_existing"
    /\ accounts' = [accounts EXCEPT ![call[r].caller] = call[r].user]
    /\ call' = [call EXCEPT ![r].pc = "done", ![r].status = 200]
    /\ UNCHANGED <<enhanceVars, flowVars, store, minted, clock, held, reply, submitted>>

NextSignup ==
    \E r \in Requests :
        \/ \E op \in SignupOps, email \in Emails : BeginSignup(r, op, email)
        \/ SignupFindEmail(r)
        \/ SignupFindUsername(r)
        \/ SignupInsert(r)
        \/ SignupSaveExisting(r)

\* Registrations and Google logins, each an independently scheduled task.
SpecSignup == InitSite /\ [][NextSignup]_vars

(* --------- services/rendercvAgent.py: create_pdf_with_rendercv -------- *)

\* What the renderer run can leave behind: the exit status of the process
\* and the output file, absent (size 0) or present with a size in bytes.
ReturnCodes == {0, 1, 2}

PdfSizes == 0..MaxPdfSize

\* which: shutil.which("rendercv"), "none" raising RuntimeError; raised:
\* subprocess.run raises.  Every exception is caught and answered False;
\* otherwise True when the exit status is 0 and os.path.exists(pdf_file).
\* os.path.getsize is only printed.
create_pdf_with_rendercv(which, raised, returncode, exists, size) ==
    IF which = "none" \/ raised
    THEN FALSE
    ELSE IF returncode = 0
         THEN (IF exists THEN TRUE ELSE FALSE)
         ELSE FALSE

\* success = await create_pdf_with_rendercv(yaml_path, pdf_path) with the
\* renderer's run drawn from its possible outcomes; the caller's branches
\* as in Render.
RenderCV(which, raised, returncode, exists, size) ==
    /\ flow.pc = "render"
    /\ LET ran == which # "none" /\ ~raised
           success == create_pdf_with_rendercv(which, raised, returncode, exists, size)
           run == [which |-> which, raised |-> raised,
                   returncode |-> IF ran THEN returncode ELSE 0,
                   exists |-> ran /\ exists,
                   size |-> IF ran /\ exists THEN size ELSE 0,
                   result |-> success, called |-> TRUE]
       IN /\ files' = IF run.exists THEN files \cup {"pdf"} ELSE files
          /\ flow' = IF success
                     THEN [flow EXCEPT !.pc = "store", !.render = run]
                     ELSE [flow EXCEPT !.pc = "done", !.status = 500, !.render = run]
    /\ UNCHANGED <<enhanceVars, siteVars>>

NextRender ==
    \/ BeginUpload
    \/ \E resume \in {"file", "text", "none"}, job \in {"given", "none"} :
         BeginAnalyze(resume, job)
    \/ \E found \in BOOLEAN : BeginPdf(found)
    \/ RaiseEarly
    \/ \E raised \in BOOLEAN : WriteTemp(raised)
    \/ \E text \in {"text", "empty"} : ExtractText(text)
    \/ \E outcome \in GeneratorOutcomes : ParseUpload(outcome)
    \/ Finally
    \/ JobDescription
    \/ \E outcome \in GeneratorOutcomes : Analysis(outcome)
    \/ \E raised \in BOOLEAN : WriteYaml(raised)
    \/ \E which \in {"rendercv", "none"}, raised \in BOOLEAN, returncode \in ReturnCodes,
          exists \in BOOLEAN, size \in PdfSizes :
            RenderCV(which, raised, returncode, exists, size)
    \/ StorePaths

\* The calls of SpecFlows, with the renderer run drawn from its outcomes.
SpecRender == InitSite /\ [][NextRender]_vars

(* ============================== claims ================================ *)

NonPro(d) == d.subscription_type # PRO

\* ---- C1 ----
\* C1: on an account whose tier is not Pro, a successful check_and_use_credits
\* of any operation kind leaves credits_remaining lower by the kind's cost and
\* credits_used higher by that cost, and the store holds exactly these values.
C1_ReserveDebitsCost ==
    (last.fn = "reserve" /\ last.ok /\ NonPro(last.before)) =>
        /\ doc.credits_remaining = last.before.credits_remaining - CostOf(last.op)
        /\ doc.credits_used = last.before.credits_used + CostOf(last.op)
        /\ doc.subscription_type = last.before.subscription_type
        /\ db = doc

C1_Witness ==
    /\ last.fn = "reserve" /\ last.ok /\ last.op = "generate"
    /\ last.before = UserDoc(TRIAL, 10, 0)
    /\ db = UserDoc(TRIAL, 7, 3)

\* ---- C2 ----
\* C2 as stated: on every account, Pro included, check_and_use_credits fails
\* if and only if credits_remaining before the call is below the kind's cost,
\* and a failed call changes neither counter.
C2_FailsIffShortAllTiers ==
    last.fn = "reserve" =>
        /\ (~last.ok) <=> (last.before.credits_remaining < CostOf(last.op))
        /\ (~last.ok) => (doc = last.before /\ db = last.before)

\* C2 as amended: on an account whose tier is not Pro the call fails if and
\* only if credits_remaining before it is below the kind's cost; a failed call
\* changes neither counter; on a Pro account the call never fails.
C2_FailsIffShortNonPro ==
    last.fn = "reserve" =>
        /\ NonPro(last.before) =>
               ((~last.ok) <=> (last.before.credits_remaining < CostOf(last.op)))
        /\ (~last.ok) => (doc = last.before /\ db = last.before)
        /\ (~NonPro(last.before)) => last.ok

C2_Witness ==
    /\ last.fn = "reserve" /\ ~last.ok /\ last.op = "generate"
    /\ last.before.subscription_type = BASIC
    /\ last.before.credits_remaining = 2
    /\ tally.granted > 0
    /\ db = last.before

\* ---- C3 ----
\* C3: a refund_credits call that directly follows a successful
\* check_and_use_credits of the same kind restores credits_remaining and
\* credits_used, in memory and in the store, to their values before the reserve.
C3_RefundRestoresReserve ==
    (last.fn = "refund" /\ last.round_trip) =>
        /\ doc.credits_remaining = last.origin.credits_remaining
        /\ doc.credits_used = last.origin.credits_used
        /\ db.credits_remaining = last.origin.credits_remaining
        /\ db.credits_used = last.origin.credits_used

\* ---- C4 ----
\* C4: on an account whose tier is not Pro and that starts with
\* credits_remaining >= 0, no sequence of reserve and refund calls of any
\* kinds takes credits_remaining below 0, in memory or in the store.
C4_RemainingNeverNegative ==
    NonPro(initial) => (db.credits_remaining >= 0 /\ doc.credits_remaining >= 0)

C4_Witness ==
    /\ NonPro(initial)
    /\ tally.granted > 0 /\ tally.refunds > 0
    /\ last.fn = "reserve" /\ ~last.ok
    /\ db.credits_remaining = 0

\* ---- C5 ----
Granted == {r \in Requests : Visited(r, "reserve_ok")}
Denied == {r \in Requests : Visited(r, "reserve_denied")}

\* C5: when all N requests have called reserve on a non-Pro account whose
\* balance covers exactly K < N reservations, and no refund has been written
\* yet, exactly K of them were granted, N - K denied, and the persisted
\* credits_remaining is the initial balance minus K times the cost.
C5_ConcurrentReservesSerialized ==
    LET N == Cardinality(Requests)
        cost == CostOf(EnhanceOp)
        K == initial.credits_remaining \div cost
    IN  ( /\ NonPro(initial)
          /\ K < N
          /\ Granted \cup Denied = Requests
          /\ \A r \in Requests : ~Visited(r, "refund") )
        => /\ Cardinality(Granted) = K
           /\ Cardinality(Denied) = N - K
           /\ db.credits_remaining = initial.credits_remaining - K * cost

\* ---- C6 ----
\* The persisted document after one enhance request handled alone on document d.
EnhanceAlone(d, c) ==
    LET res == check_and_use_credits(d, EnhanceOp) IN
    IF res.ok THEN refund_credits(res.user, EnhanceOp) ELSE d

C7_ProReserveNeverBlocks ==
    (initial.subscription_type = PRO) =>
        /\ tally.granted = tally.reserves
        /\ last.fn = "reserve" =>
              /\ last.ok
              /\ doc.credits_used = last.before.credits_used + CostOf(last.op)
              /\ doc.credits_remaining = last.before.credits_remaining
              /\ db = doc
        /\ tally.refunds = 0 =>
              /\ db.credits_used = initial.credits_used + tally.cost_sum
              /\ db.credits_remaining = initial.credits_remaining

C7_Witness ==
    /\ initial = UserDoc(PRO, 0, 50)
    /\ tally.reserves = 5 /\ tally.cost_sum = 5 /\ tally.refunds = 0
    /\ tally.granted = 5
    /\ db = UserDoc(PRO, 0, 55)

\* ---- C8 ----
\* C8: an enhance request with non-empty content on a Trial account holding
\* credits_remaining = 10, credits_used = 0 ends in success (status 200, no
\* refund) with credits_remaining = 9 and credits_used = 1 persisted.
C8_ValidEnhanceSucceeds ==
    \A r \in Requests :
        ( /\ r = current /\ pc[r] = "done"
          /\ ~ContentMissing(content[r])
          /\ before[r] = UserDoc(TRIAL, 10, 0) )
        => /\ status[r] = 200
           /\ ~Visited(r, "refund")
           /\ db = UserDoc(TRIAL, 9, 1)

\* ---- C9 ----
\* C9: an enhance request whose content is empty or only whitespace and whose
\* reservation succeeded calls refund exactly once, ends with the validation
\* error (status 400), never reaches the Content Generator, and leaves the
\* persisted credits_remaining and credits_used as they were before it.
C9_MissingContentRefunded ==
    \A r \in Requests :
        ( /\ r = current /\ pc[r] = "done"
          /\ ContentMissing(content[r])
          /\ Visited(r, "reserve_ok") )
        => /\ status[r] = 400
           /\ Count(r, "refund") = 1
           /\ ~Visited(r, "generate")
           /\ db.credits_remaining = before[r].credits_remaining
           /\ db.credits_used = before[r].credits_used

\* ---- C10 ----
\* C10: once reserve is denied in an enhance request, the request has ended
\* with the payment-required error (status 402), has not reached the Content
\* Generator, has made no refund, and the persisted document is as it was
\* when the request arrived.
C10_DeniedReserveEndsRequest ==
    \A r \in Requests :
        (r = current /\ Visited(r, "reserve_denied"))
        => /\ pc[r] = "done"
           /\ status[r] = 402
           /\ ~Visited(r, "generate")
           /\ ~Visited(r, "refund")
           /\ ~Visited(r, "reload")
           /\ db = before[r]

C10_Witness ==
    \E r \in Requests :
        /\ r = current /\ pc[r] = "done" /\ status[r] = 402
        /\ before[r] = UserDoc(BASIC, 0, 0)
        /\ db = UserDoc(BASIC, 0, 0)
        /\ path[r] = <<"get", "reserve_denied">>

Latest(r) == call[r].seq = submitted /\ submitted > 0

Finished(r) == call[r].pc = "done"

NotFound(r) ==
    call[r].status = 404 /\ call[r].detail = "Resume not found or access denied"

\* ---- C12 ----
\* C12: a get, update or delete by an authenticated account on a resume that
\* exists and belongs to another account ends with the same 404 as one on an
\* id under which nothing is stored, and the resume and its owner's account
\* document are as they were when the request arrived.
C12_NonOwnerSeesNotFound ==
    \A r \in Requests :
        (Latest(r) /\ Finished(r) /\ call[r].op \in {"get", "update", "delete"}
            /\ call[r].caller # "none")
        => LET was == call[r].store[call[r].target] IN
             /\ was = NoResume => NotFound(r)
             /\ (was # NoResume /\ was.user_id # call[r].caller)
                  => /\ NotFound(r)
                     /\ store[call[r].target] = was
                     /\ accounts[was.user_id] = call[r].accounts[was.user_id]

C12_Witness ==
    \E r \in Requests :
        /\ Latest(r) /\ Finished(r) /\ call[r].op = "delete"
        /\ call[r].caller # "none"
        /\ call[r].store[call[r].target] # NoResume
        /\ call[r].store[call[r].target].user_id # call[r].caller
        /\ NotFound(r)

\* ---- C13 ----
\* C13: a request to a protected route gets past authentication exactly when
\* its token is correctly signed, of type access and presented less than one
\* hour after it was issued; any other token ends the request with 401 and
\* both collections are as they were when the request arrived.
C13_OnlyValidAccessTokenProceeds ==
    \A r \in Requests :
        call[r].pc \notin {"idle", "auth"}
        => LET token == call[r].token
               valid == /\ token.sig = "good"
                        /\ token.type = "access"
                        /\ call[r].at < token.iat + ACCESS_TTL
           IN /\ call[r].caller # "none" <=> valid
              /\ ~valid => /\ Finished(r)
                           /\ call[r].status = 401
                           /\ Latest(r) => (accounts = call[r].accounts
                                            /\ store = call[r].store)

C13_Witness ==
    \E r \in Requests :
        /\ Finished(r) /\ call[r].status = 401
        /\ call[r].token.sig = "good" /\ call[r].token.type = "access"
        /\ call[r].at = call[r].token.exp
        /\ call[r].op = "delete"
        /\ store[call[r].target] # NoResume
        /\ store[call[r].target].user_id = call[r].token.user_id

\* ---- C14 ----
\* C14: the refresh route answers 200 with a new access token exactly when
\* the presented token is correctly signed, of type refresh and presented
\* less than 30 days after it was issued; the new token carries the presented
\* token's user_id and email and expires one hour after the call.  Any other
\* token is answered 401 and no token is issued.
C14_RefreshExchange ==
    reply.route = "refresh"
    => LET token == reply.presented
           valid == /\ token.sig = "good"
                    /\ token.type = "refresh"
                    /\ reply.at < token.iat + REFRESH_TTL
       IN /\ reply.status = 200 <=> valid
          /\ valid => /\ reply.access_token.sig = "good"
                      /\ reply.access_token.type = "access"
                      /\ reply.access_token.user_id = token.user_id
                      /\ reply.access_token.email = token.email
                      /\ reply.access_token.exp = reply.at + ACCESS_TTL
                      /\ held.access_token = reply.access_token
          /\ ~valid => /\ reply.status = 401
                       /\ reply.access_token = NoToken
          /\ accounts = reply.before

C14_Witness ==
    /\ reply.route = "refresh"
    /\ reply.status = 200
    /\ reply.at = REFRESH_TTL - 1
    /\ reply.presented.iat = 0

\* The account a successful register or google_oauth call has just inserted.
Created(u) ==
    /\ reply.route \in {"register", "google"}
    /\ reply.status = 200
    /\ reply.user_id = u
    /\ reply.before[u] = NoAccount

\* ---- C15 ----
\* C15: the account inserted by a password registration or by the first
\* Google login of an email has credits_remaining 10, credits_used 0, tier
\* trial, no resume ids and resume_count 0.
C15_NewAccountDefaults ==
    \A u \in UserIds :
        Created(u)
        => /\ accounts[u].credits_remaining = 10
           /\ accounts[u].credits_used = 0
           /\ accounts[u].subscription_type = TRIAL
           /\ accounts[u].resume_ids = <<>>
           /\ accounts[u].resume_count = 0

C15_Witness ==
    /\ Created("u2")
    /\ reply.route = "google"
    /\ accounts["u1"].password_hash # <<>>

Conflict == reply.status = 400 /\ reply.detail = "User with this email already exists"

\* A register call whose email belonged to an account when it was made.
DuplicateRegistration ==
    reply.route = "register" /\ FindByEmail(reply.before, reply.email) # {}

NothingCreated ==
    /\ accounts = reply.before
    /\ reply.access_token = NoToken
    /\ reply.refresh_token = NoToken

\* ---- C18 ----
\* C18 as stated: every password registration with an email that already
\* belongs to an account fails with the conflict error, creates no account,
\* issues no tokens and leaves the users collection as it was.
C18_DuplicateEmailConflict == DuplicateRegistration => (Conflict /\ NothingCreated)

\* C18 as amended: such a registration never creates an account, issues no
\* tokens and leaves the users collection as it was; it fails with the
\* conflict error when the password has at least 8 characters, and with the
\* password-length error, which register checks first, when it is shorter.
C18_DuplicateEmailRejected ==
    DuplicateRegistration
    => /\ NothingCreated
       /\ reply.status = 400
       /\ Len(reply.password) >= MinPasswordLength => Conflict
       /\ Len(reply.password) < MinPasswordLength
            => reply.detail = "Password must be at least 8 characters long"

C18_Witness ==
    /\ DuplicateRegistration
    /\ Conflict
    /\ Stored(accounts) # {}

\* The stored resumes whose user_id is u.
Owned(u) == {i \in ResumeIds : store[i] # NoResume /\ store[i].user_id = u}

Quiescent == \A r \in Requests : ~InProgress(r)

\* ---- C16 ----
\* C16: whenever no save or delete request is in progress, every account's
\* resume_count equals the number of stored resumes it owns and the length
\* of its resume_ids, whatever the interleaving of the requests before.
C16_CountMatchesOwned ==
    Quiescent
    => \A u \in UserIds :
         /\ accounts[u].resume_count = Cardinality(Owned(u))
         /\ accounts[u].resume_count = Len(accounts[u].resume_ids)

\* ---- C17 ----
\* C17: after a delete request of the owner that ran with no other request
\* in progress and reported success, the resume is not stored, its id is not
\* in the owner's resume_ids, the owner's resume_count is one lower than when
\* the request arrived, and every other resume and account is as it was.
C17_DeleteFrame ==
    \A r \in Requests :
        (Latest(r) /\ Finished(r) /\ call[r].solo /\ call[r].op = "delete"
            /\ call[r].status = 200)
        => LET owner == call[r].caller
               id == call[r].target
           IN /\ store[id] = NoResume
              /\ ~InSeq(id, accounts[owner].resume_ids)
              /\ accounts[owner].resume_count = call[r].accounts[owner].resume_count - 1
              /\ \A i \in ResumeIds \ {id} : store[i] = call[r].store[i]
              /\ \A u \in UserIds \ {owner} : accounts[u] = call[r].accounts[u]

\* ---- C19 ----
\* C19: a call for an operation kind that has a price in CREDIT_COSTS has
\* reserved credits before it calls the Content Generator.
C19_GeneratorCallReserved ==
    (flow.op \in DOMAIN CREDIT_COSTS /\ flow.generator_calls > 0) => flow.reserved

\* ---- C20 ----
\* C20: when an upload, ATS-analysis or PDF-generation call has ended, none
\* of the temporary files it wrote exists.
C20_TempFilesRemoved == flow.pc = "done" => flow.temp \cap files = {}

\* ---- C21 ----
\* C21: a refund_credits call on a Pro account leaves credits_remaining as it
\* was and lowers credits_used by the kind's cost, not below 0, in memory and
\* in the store.
C21_ProRefundAdjustsUsage ==
    (last.fn = "refund" /\ last.before.subscription_type = PRO) =>
        /\ doc.credits_remaining = last.before.credits_remaining
        /\ doc.credits_used = Max0(last.before.credits_used - CostOf(last.op))
        /\ db.credits_remaining = doc.credits_remaining
        /\ db.credits_used = doc.credits_used

\* ---- C22 ----
\* C22: on an account that is not Pro every refund_credits call, whether or
\* not a reserve preceded it and however many refunds did, raises
\* credits_remaining by the kind's cost and lowers credits_used by that cost
\* but not below 0, in memory and in the store; no counter is ever negative.
C22_RefundUnconditional ==
    /\ (last.fn = "refund" /\ NonPro(last.before)) =>
          /\ doc.credits_remaining = last.before.credits_remaining + CostOf(last.op)
          /\ doc.credits_used = Max0(last.before.credits_used - CostOf(last.op))
          /\ db = doc
    /\ NonPro(doc) =>
          /\ doc.credits_remaining >= 0 /\ doc.credits_used >= 0
          /\ db.credits_remaining >= 0 /\ db.credits_used >= 0

\* Two refunds with no reserve before them, the second on a usage counter
\* smaller than the cost.
C22_Witness ==
    /\ last.fn = "refund"
    /\ NonPro(last.before)
    /\ tally.reserves = 0
    /\ tally.refunds >= 2
    /\ last.before.credits_used < CostOf(last.op)
    /\ db.credits_remaining > initial.credits_remaining

C24_RefundFailureSwallowed ==
    \A r \in Requests :
        (/\ pc[r] = "done"
         /\ Visited(r, "attribute_error")
         /\ (Visited(r, "reload_failed") \/ Visited(r, "refund_failed"))) =>
            /\ status[r] = 500
            /\ error[r].detail = EnhancementFailed("AttributeError")

C24_Witness ==
    \E r, q \in Requests :
        /\ pc[r] = "done" /\ pc[q] = "done"
        /\ Visited(r, "attribute_error") /\ Visited(r, "reload_failed")
        /\ Visited(q, "attribute_error") /\ Visited(q, "refund_failed")

\* ---- C25 ----
\* C25: within one enhance request reserve is called at most once and the
\* Content Generator at most once; a request whose delegation failed has ended
\* with that failure as its last step; and the stored balance goes down only
\* in the step in which a request makes its one reserve.
ReserveCalls(r) == Count(r, "reserve_ok") + Count(r, "reserve_denied")

GeneratorCalls(r) == Count(r, "generated") + Count(r, "generator_failed")

C26_SuccessNeedsNonEmptyPdf ==
    flow.render.called =>
        (flow.render.result <=>
            /\ flow.render.which # "none"
            /\ ~flow.render.raised
            /\ flow.render.returncode = 0
            /\ flow.render.exists
            /\ flow.render.size > 0)

\* ---- C27 ----
\* C27: with enhance requests handled one at a time on an account that is
\* not Pro, whenever no request is in progress the persisted sum
\* credits_remaining + credits_used is what it was at the start, and
\* credits_used has grown by the cost for each request that ended in success.
\* Every request served so far still stands in its slot, so the successes
\* can be counted.
Idle == \A r \in Requests : pc[r] \in {"idle", "done"}

Ended == {r \in Requests : pc[r] = "done"}

Succeeded == {r \in Ended : status[r] = 200}

C28_AccountWriteKeepsCredits ==
    [][\A r \in Requests :
          (pc[r] = "account_save" /\ pc'[r] = "done") => db' = db]_vars

\* ---- C29 ----
\* C29: an update by the owner of a stored resume ends in success, the
\* stored resume then carries the document of the request, its owner is the
\* same, and every account document is as it was when the request arrived.
C29_OwnerUpdateStored ==
    \A r \in Requests :
        (/\ Latest(r) /\ Finished(r) /\ call[r].op = "update"
         /\ call[r].caller # "none"
         /\ call[r].store[call[r].target].user_id = call[r].caller)
        => /\ call[r].status = 200
           /\ store[call[r].target].json_data = UpdateDocument
           /\ store[call[r].target].user_id = call[r].caller
           /\ accounts = call[r].accounts

\* ---- C30 ----
\* C30: however concurrent registrations and first Google logins interleave,
\* no two stored accounts have the same email and no two have the same
\* username.
C30_IdentityUnique ==
    \A u, v \in Stored(accounts) :
        u # v => /\ accounts[u].email # accounts[v].email
                 /\ accounts[u].username # accounts[v].username

====
